---------------------------- MODULE Spec2Model ----------------------------
(***************************************************************************)
(* Model of the express-api-server template.                               *)
(*                                                                         *)
(*   Spec        the cluster primary of src/cluster.js supervising its     *)
(*               worker processes (fork, 'exit', 'disconnect', shutdown).  *)
(*   WorkerSpec  one worker process: the WorkerMonitor middleware and its  *)
(*               timers, and the signal handler of the server.             *)
(*   AuthSpec    the two verifyToken middlewares applied to one request.   *)
(*   ApiSpec     one request through the middleware stack of a user route  *)
(*               of index.js or of routes/userRoutes.js.                   *)
(*   RegisterSpec  register requests interleaving at their awaits.         *)
(*   ResponseSpec  res.json as wrapped by validateResponse.                *)
(*   CodecSpec   encrypt and decrypt with the Base64URL conversions.       *)
(*   WalkSpec    the recursive id walks on nested values.                  *)
(*   DbSpec      the storage connections of a worker: startServer and      *)
(*               concurrent callers of one connect operation.              *)
(*                                                                         *)
(* Each specification leaves the variables of the others unchanged.        *)
(***************************************************************************)
EXTENDS Integers, Naturals, Sequences, FiniteSets, TLC

(***************************************************************************)
(* Bounds of the model.                                                    *)
(***************************************************************************)
\* number of CPUs reported by os.cpus() on the modelled machine
NumCPUs == 2
\* worker exits the model follows (each one is answered by a fork)
MaxRestarts == 2
\* termination signals delivered to the primary
MaxSignals == 1

MaxId == NumCPUs + MaxRestarts
Ids == 1..MaxId

\* process.exit codes used by the workers (0 voluntary, 1 crash)
ExitCodes == {0, 1}
NoCode == -1

\* messages on the primary -> worker channel
DisconnectMsg == "NODE_CLUSTER:disconnect"
ShutdownMsg == "type:shutdown"

VARIABLES
    primary,                \* "running" | "exited"       (the primary process)
    primaryExit,            \* code given to process.exit in the primary
    shutdownCalls,          \* times shutdown() ran: 'disconnect' listeners and 30 s timers armed
    ids,                    \* id of the last forked worker (cluster's id counter)
    workers,                \* keys of cluster.workers
    proc,                   \* worker process: "none" | "running" | "dead"
    wcode,                  \* exit code of a dead worker
    chan,                   \* IPC channel of a worker: "none" | "open" |
                            \*   "disconnected" (closed by the worker) | "closed" (by its death)
    connected,              \* worker.isConnected() as the primary sees it
    isDead,                 \* worker.isDead(): the primary has seen the exit
    exitedAfterDisconnect,  \* worker.exitedAfterDisconnect in the primary
    inbox                   \* messages sent to a worker and not yet handled

cvars == <<primary, primaryExit, shutdownCalls, ids, workers, proc, wcode, chan,
           connected, isDead, exitedAfterDisconnect, inbox>>

\* one worker process
VARIABLES
    wstate,       \* "running" | "exited"
    wexit,        \* code given to process.exit in the worker
    hasChannel,   \* process.send is defined (the process was forked with a channel)
    stats,        \* this.stats: [requests, errors]
    req,          \* request -> "new" | "inflight" | "done"
    status,       \* request -> res.statusCode when it ended
    listening,    \* the HTTP server accepts connections
    closing,      \* server.close(cb) was called and cb has not run
    graceTimers,  \* gracefulShutdown() calls waiting on their 5 s timer
    outbox        \* metrics messages sent with process.send, in order

wvars == <<wstate, wexit, hasChannel, stats, req, status, listening, closing,
           graceTimers, outbox>>

\* one request at the token verification middleware
VARIABLES
    areq,     \* the request: Authorization header and the clock when it is handled
    auser,    \* req.user
    aout      \* what the middleware did: next(), next(err) or a response

avars == <<areq, auser, aout>>

\* one request at the middleware stack of a user route, and the user store
VARIABLES
    rq,        \* the request as it was received
    pc,        \* position in the route's stack of the middleware to run next
    params,    \* req.params.id
    pbody,     \* req.body.id
    ruser,     \* req.user
    sent,      \* responses written, in order
    ran,       \* middlewares (and handler) that ran, in order
    store,     \* user id -> "absent" | "v0" (as created) | "v1" (updated)
    storeOps   \* calls made to the store

pvars == <<rq, pc, params, pbody, ruser, sent, ran, store, storeOps>>

\* register requests in flight in one worker, and the user store
VARIABLES
    gapp,      \* "index": POST /auth/register of index.js on the User model
               \* "routes": router.post('/register') of routes/authRoutes.js
    gusers,    \* the emails of the stored user records, in insertion order
    gpc,       \* request -> "none" | "new" | "salt" | "hash" | "insert" | "done"
    gemail,    \* request -> req.body.email
    gstatus,   \* request -> status of its response, 0 before it
    gnow,      \* Date.now(), in milliseconds
    gids,      \* the ids of the records in the users array of authRoutes.js
    gcreated   \* the ids of the records in the users array of userRoutes.js

gvars == <<gapp, gusers, gpc, gemail, gstatus, gnow, gids, gcreated>>

\* one call of res.json on a response wrapped by validateResponse
VARIABLES
    vdata,     \* the data given to res.json: the fields it has
    vbody,     \* the body handed to the original res.json
    vlog       \* records written to the logger

rvars == <<vdata, vbody, vlog>>

\* one identifier through encrypt and then decrypt
VARIABLES
    ktext,     \* the text given to encrypt
    kaes,      \* the standard Base64 text CryptoJS.AES.encrypt(...).toString() returns for it
    kenc,      \* what encrypt returned
    kdec       \* what decrypt returned for it

kvars == <<ktext, kaes, kenc, kdec>>

\* one nested value through the id walk of transformResponse or decryptRequestIds
VARIABLES
    tin,       \* the value given to the walk
    tout       \* the walk applied and what it returned

tvars == <<tin, tout>>

\* the storage connections of one worker process
VARIABLES
    dtype,     \* the backend the callers of this run ask for
    dconn,     \* db.connections: backend -> the object kept, 0 for null
    dmade,     \* backend -> connections or pools opened so far
    dboot,     \* startServer(): "start" | "mysql" | "query" | "listening"
    dheld,     \* the pool the connectMySQL call of startServer awaits, 0 if none
    dpc,       \* caller -> "idle" | "await" | "done"
    dobj,      \* caller -> the object its call awaits
    dret       \* caller -> the object its call returned

dvars == <<dtype, dconn, dmade, dboot, dheld, dpc, dobj, dret>>

\* the variables outside the cluster, the worker and the token check
xvars == <<pvars, gvars, rvars, kvars, tvars, dvars>>

vars == <<cvars, wvars, avars, xvars>>

-----------------------------------------------------------------------------
(***************************************************************************)
(* The cluster primary.                                                    *)
(***************************************************************************)

Live == {w \in Ids : proc[w] = "running"}
PendingExit == {w \in Ids : proc[w] = "dead" /\ ~isDead[w]}

\* cluster.fork(): a new worker process with the next id, entered in cluster.workers
Fork(ws) ==
    /\ ids' = ids + 1
    /\ workers' = ws \cup {ids + 1}
    /\ proc' = [proc EXCEPT ![ids + 1] = "running"]
    /\ chan' = [chan EXCEPT ![ids + 1] = "open"]
    /\ connected' = [connected EXCEPT ![ids + 1] = TRUE]

\* for (i < numCPUs) cluster.fork()
CInit ==
    /\ primary = "running"
    /\ primaryExit = NoCode
    /\ shutdownCalls = 0
    /\ ids = NumCPUs
    /\ workers = 1..NumCPUs
    /\ proc = [w \in Ids |-> IF w <= NumCPUs THEN "running" ELSE "none"]
    /\ wcode = [w \in Ids |-> NoCode]
    /\ chan = [w \in Ids |-> IF w <= NumCPUs THEN "open" ELSE "none"]
    /\ connected = [w \in Ids |-> w <= NumCPUs]
    /\ isDead = [w \in Ids |-> FALSE]
    /\ exitedAfterDisconnect = [w \in Ids |-> FALSE]
    /\ inbox = [w \in Ids |-> {}]

\* A worker process ends: process.exit(1) of the uncaughtException and
\* unhandledRejection handlers, or process.exit(0) of a voluntary exit.
\* The operating system closes its channel.
WorkerExits(w, c) ==
    /\ primary = "running"
    /\ UNCHANGED <<wvars, avars, xvars>>
    /\ proc[w] = "running"
    /\ ids + Cardinality(PendingExit) < MaxId
    /\ proc' = [proc EXCEPT ![w] = "dead"]
    /\ wcode' = [wcode EXCEPT ![w] = c]
    /\ chan' = [chan EXCEPT ![w] = IF @ = "open" THEN "closed" ELSE @]
    /\ inbox' = [inbox EXCEPT ![w] = {}]
    /\ UNCHANGED <<primary, primaryExit, shutdownCalls, ids, workers, connected,
                   isDead, exitedAfterDisconnect>>

\* The worker handles the primary's disconnect request: it closes its
\* servers and its end of the channel; the process itself keeps running.
WorkerDisconnects(w) ==
    /\ primary = "running"
    /\ UNCHANGED <<wvars, avars, xvars>>
    /\ proc[w] = "running"
    /\ DisconnectMsg \in inbox[w]
    /\ inbox' = [inbox EXCEPT ![w] = @ \ {DisconnectMsg}]
    /\ chan' = [chan EXCEPT ![w] = "disconnected"]
    /\ UNCHANGED <<primary, primaryExit, shutdownCalls, ids, workers, proc, wcode,
                   connected, isDead, exitedAfterDisconnect>>

\* an exit handler that only logs
OnExitNoRestart(w) ==
    /\ primary = "running"
    /\ UNCHANGED <<wvars, avars, xvars>>
    /\ proc[w] = "dead" /\ ~isDead[w]
    /\ isDead' = [isDead EXCEPT ![w] = TRUE]
    /\ workers' = IF connected[w] THEN workers ELSE workers \ {w}
    /\ UNCHANGED <<primary, primaryExit, shutdownCalls, ids, proc, chan, connected,
                   wcode, exitedAfterDisconnect, inbox>>

\* cluster.on('exit'): the worker leaves cluster.workers if it is already
\* disconnected, then the handler logs and forks, whatever the code.
\* The runtime fixes no order between the 'exit' and the 'disconnect' event
\* of one worker: OnExit and OnDisconnect are enabled independently.
OnExit(w) ==
    /\ primary = "running"
    /\ UNCHANGED <<wvars, avars, xvars>>
    /\ proc[w] = "dead" /\ ~isDead[w]
    /\ isDead' = [isDead EXCEPT ![w] = TRUE]
    /\ Fork(IF connected[w] THEN workers ELSE workers \ {w})
    /\ UNCHANGED <<primary, primaryExit, shutdownCalls, wcode,
                   exitedAfterDisconnect, inbox>>

\* cluster 'disconnect' event: the worker leaves cluster.workers if it is
\* dead, then every listener registered by shutdown() runs its test.
OnDisconnect(w) ==
    /\ primary = "running"
    /\ UNCHANGED <<wvars, avars, xvars>>
    /\ chan[w] \in {"disconnected", "closed"} /\ connected[w]
    /\ connected' = [connected EXCEPT ![w] = FALSE]
    /\ LET ws == IF isDead[w] THEN workers \ {w} ELSE workers
       IN /\ workers' = ws
          /\ IF shutdownCalls > 0 /\ ws = {}
               THEN primary' = "exited" /\ primaryExit' = 0
               ELSE UNCHANGED <<primary, primaryExit>>
    /\ UNCHANGED <<shutdownCalls, ids, proc, wcode, chan, isDead,
                   exitedAfterDisconnect, inbox>>

\* worker.disconnect() in the primary, for every worker of the given set:
\* marks it, sends the internal disconnect request over a connected
\* channel and drops the worker from cluster.workers.
DisconnectAll(ws) ==
    /\ exitedAfterDisconnect' = [w \in Ids |-> exitedAfterDisconnect[w] \/ w \in ws]
    /\ inbox' = [w \in Ids |->
                   IF w \in ws /\ connected[w] /\ proc[w] = "running" /\ chan[w] = "open"
                     THEN inbox[w] \cup {DisconnectMsg} ELSE inbox[w]]
    /\ workers' = workers \ ws

\* shutdown(), the SIGTERM / SIGINT handler of the primary
Shutdown ==
    /\ primary = "running"
    /\ UNCHANGED <<wvars, avars, xvars>>
    /\ shutdownCalls < MaxSignals
    /\ DisconnectAll(workers)
    /\ shutdownCalls' = shutdownCalls + 1
    /\ UNCHANGED <<primary, primaryExit, ids, proc, wcode, chan, connected, isDead>>

\* a timer callback that waits for cluster.workers to empty
ForceExitKeepsRunning ==
    /\ primary = "running"
    /\ UNCHANGED <<wvars, avars, xvars>>
    /\ shutdownCalls > 0
    /\ workers = {}
    /\ primary' = "exited"
    /\ primaryExit' = 1
    /\ UNCHANGED <<shutdownCalls, ids, workers, proc, wcode, chan, connected,
                   isDead, exitedAfterDisconnect, inbox>>

\* the 30 s timer armed by shutdown()
ForceExit ==
    /\ primary = "running"
    /\ UNCHANGED <<wvars, avars, xvars>>
    /\ shutdownCalls > 0
    /\ primary' = "exited"
    /\ primaryExit' = 1
    /\ UNCHANGED <<shutdownCalls, ids, workers, proc, wcode, chan, connected,
                   isDead, exitedAfterDisconnect, inbox>>


-----------------------------------------------------------------------------
(***************************************************************************)
(* One worker process: WorkerMonitor and the signal handler of index.js.   *)
(***************************************************************************)
\* requests the model follows through one worker
MaxRequests == 3
\* metrics reports the model follows
MaxReports == 3

ReqIds == 1..MaxRequests
\* HTTP status codes a response ends with
StatusCodes == {200, 404}
\* message types a worker can receive on its channel
MsgTypes == {"shutdown", "ping"}

ZeroStats == [requests |-> 0, errors |-> 0]

Inflight == {r \in ReqIds : req[r] = "inflight"}
Counted == {r \in ReqIds : req[r] # "new"}
Failed == {r \in ReqIds : req[r] = "done" /\ status[r] >= 400}

\* the worker has been told to shut down and has not exited yet
ShuttingDown == wstate = "running" /\ (graceTimers > 0 \/ closing)

WInitWith(ch) ==
    /\ wstate = "running"
    /\ wexit = NoCode
    /\ hasChannel = ch
    /\ stats = ZeroStats
    /\ req = [r \in ReqIds |-> "new"]
    /\ status = [r \in ReqIds |-> 0]
    /\ listening = TRUE
    /\ closing = FALSE
    /\ graceTimers = 0
    /\ outbox = <<>>

WInit == \E ch \in BOOLEAN : WInitWith(ch)

\* a report that leaves the counters as they are
ReportStatsNoReset ==
    IF ~hasChannel
      THEN UNCHANGED <<stats, outbox>>
      ELSE /\ outbox' = Append(outbox, [type |-> "metrics",
                                        requests |-> stats.requests,
                                        errors |-> stats.errors])
           /\ UNCHANGED stats

\* reportStats(): send the counters, then reset them
ReportStats ==
    IF ~hasChannel
      THEN UNCHANGED <<stats, outbox>>
      ELSE /\ outbox' = Append(outbox, [type |-> "metrics",
                                        requests |-> stats.requests,
                                        errors |-> stats.errors])
           /\ stats' = ZeroStats

\* middleware(): a request reaches the monitor and is counted
Admit(r) ==
    /\ wstate = "running"
    /\ UNCHANGED <<cvars, avars, xvars>>
    /\ listening
    /\ req[r] = "new"
    /\ \A q \in ReqIds : q < r => req[q] # "new"
    /\ req' = [req EXCEPT ![r] = "inflight"]
    /\ stats' = [stats EXCEPT !.requests = @ + 1]
    /\ UNCHANGED <<wstate, wexit, hasChannel, status, listening, closing,
                   graceTimers, outbox>>

\* the wrapped res.end of a request: counts the error, ends the response
EndResponse(r, s) ==
    /\ wstate = "running"
    /\ UNCHANGED <<cvars, avars, xvars>>
    /\ req[r] = "inflight"
    /\ req' = [req EXCEPT ![r] = "done"]
    /\ status' = [status EXCEPT ![r] = s]
    /\ stats' = IF s >= 400 THEN [stats EXCEPT !.errors = @ + 1] ELSE stats
    /\ UNCHANGED <<wstate, wexit, hasChannel, listening, closing, graceTimers,
                   outbox>>

\* setInterval(() => this.reportStats(), 10000)
ReportTimer ==
    /\ wstate = "running"
    /\ UNCHANGED <<cvars, avars, xvars>>
    /\ Len(outbox) < MaxReports
    /\ ReportStats
    /\ UNCHANGED <<wstate, wexit, hasChannel, req, status, listening, closing,
                   graceTimers>>

\* process.on('message'): a 'shutdown' message starts gracefulShutdown(),
\* which reports and then waits 5 s; any other message is ignored
OnMessage(m) ==
    /\ wstate = "running"
    /\ UNCHANGED <<cvars, avars, xvars>>
    /\ hasChannel
    /\ Len(outbox) < MaxReports
    /\ IF m = "shutdown"
         THEN /\ ReportStats
              /\ graceTimers' = graceTimers + 1
         ELSE UNCHANGED <<stats, outbox, graceTimers>>
    /\ UNCHANGED <<wstate, wexit, hasChannel, req, status, listening, closing>>

\* the 5 s timer of gracefulShutdown() ends: process.exit(0)
GraceTimerFires ==
    /\ wstate = "running"
    /\ UNCHANGED <<cvars, avars, xvars>>
    /\ graceTimers > 0
    /\ wstate' = "exited"
    /\ wexit' = 0
    /\ UNCHANGED <<hasChannel, stats, req, status, listening, closing,
                   graceTimers, outbox>>

\* SIGTERM / SIGINT in the worker: server.close(callback)
WorkerSignal ==
    /\ wstate = "running"
    /\ UNCHANGED <<cvars, avars, xvars>>
    /\ ~closing
    /\ listening' = FALSE
    /\ closing' = TRUE
    /\ UNCHANGED <<wstate, wexit, hasChannel, stats, req, status, graceTimers,
                   outbox>>

\* the callback of server.close runs once no connection is left:
\* db.closeAll() and process.exit(0), or process.exit(1) if closing failed
ServerClosed(ok) ==
    /\ wstate = "running"
    /\ UNCHANGED <<cvars, avars, xvars>>
    /\ closing
    /\ Inflight = {}
    /\ wstate' = "exited"
    /\ wexit' = IF ok THEN 0 ELSE 1
    /\ closing' = FALSE
    /\ UNCHANGED <<hasChannel, stats, req, status, listening, graceTimers, outbox>>


-----------------------------------------------------------------------------
(***************************************************************************)
(* Token verification: verifyToken of middleware/auth.js and of            *)
(* middleware/authMiddleware.js, over jsonwebtoken's verify.               *)
(***************************************************************************)
\* latest clock value and expiry time the model draws
MaxTime == 2

Subjects == {"u1", "u2"}
Roles == {"user", "admin"}
\* what follows "Authorization:" : no header, "Bearer <token>", "Basic <token>", one word
Schemes == {"absent", "Bearer", "Basic", "word"}
\* a token string: a JWT with its signature state and claims, or not a JWT at all
Tokens == [form : {"jwt", "garbage"}, sig : {"good", "bad"}, exp : 1..MaxTime,
           sub : Subjects, role : Roles]
Middlewares == {"auth", "authMiddleware"}

NoReq == [scheme |-> "absent", now |-> -1]
NoUser == [sub |-> "", role |-> ""]
NoOutcome == [kind |-> "none", status |-> 0, message |-> ""]

AInit ==
    /\ areq = NoReq
    /\ auser = NoUser
    /\ aout = NoOutcome

\* the prototype chain of an error class of jsonwebtoken: TokenExpiredError
\* and NotBeforeError extend JsonWebTokenError
SuperClasses(c) == IF c = "JsonWebTokenError" THEN {c} ELSE {c, "JsonWebTokenError"}
InstanceOf(c, k) == k \in SuperClasses(c)

\* jwt.verify(token, secret): structure, then signature, then expiry
JwtVerify(t, now) ==
    IF t.form # "jwt" THEN [ok |-> FALSE, error |-> "JsonWebTokenError"]
    ELSE IF t.sig # "good" THEN [ok |-> FALSE, error |-> "JsonWebTokenError"]
    ELSE IF now >= t.exp THEN [ok |-> FALSE, error |-> "TokenExpiredError"]
    ELSE [ok |-> TRUE, error |-> ""]

Decoded(t) == [sub |-> t.sub, role |-> t.role]
Respond(s, m) == [kind |-> "response", status |-> s, message |-> m]
NextError(s, m) == [kind |-> "next(err)", status |-> s, message |-> m]
NextOk == [kind |-> "next", status |-> 0, message |-> ""]

\* a request arrives with some Authorization header at some time
Receive(h, n) ==
    /\ areq = NoReq
    /\ UNCHANGED <<cvars, wvars, xvars>>
    /\ areq' = [scheme |-> h.scheme, token |-> h.token, now |-> n]
    /\ UNCHANGED <<auser, aout>>

\* authorization?.split(' ')[1]: the second word of the header, if any
SecondWord(r) == IF r.scheme \in {"Bearer", "Basic"} THEN {r.token} ELSE {}

\* verifyToken of middleware/auth.js
AuthOutcome(r) ==
    IF SecondWord(r) = {} THEN Respond(401, "No token provided")
    ELSE IF JwtVerify(r.token, r.now).ok THEN NextOk
    ELSE Respond(401, "Invalid token")

\* verifyToken of middleware/authMiddleware.js
Catch(e) ==
    IF InstanceOf(e, "JsonWebTokenError") THEN NextError(401, "Invalid token")
    ELSE IF InstanceOf(e, "TokenExpiredError") THEN NextError(401, "Token expired")
    ELSE NextError(500, e)

AuthMiddlewareOutcome(r) ==
    IF r.scheme # "Bearer" THEN NextError(401, "No token provided")
    ELSE IF JwtVerify(r.token, r.now).ok THEN NextOk
    ELSE Catch(JwtVerify(r.token, r.now).error)

VerifyToken(m) ==
    /\ areq # NoReq
    /\ UNCHANGED <<cvars, wvars, xvars>>
    /\ aout = NoOutcome
    /\ aout' = IF m = "auth" THEN AuthOutcome(areq) ELSE AuthMiddlewareOutcome(areq)
    /\ auser' = IF aout'.kind = "next" THEN Decoded(areq.token) ELSE auser
    /\ UNCHANGED areq


-----------------------------------------------------------------------------
(***************************************************************************)
(* The protected user routes: one request through the middleware stack of  *)
(* the application (index.js) or of the user router (routes/userRoutes.js).*)
(***************************************************************************)
Apps == {"index", "routes"}
Routes == {"listUsers", "getUser", "putUser", "deleteUser"}

\* user ids; the store starts with a record for every id but the last
PlainIds == {"u1", "u2", "u9"}
InitialStore == [i \in PlainIds |-> IF i = "u9" THEN "absent" ELSE "v0"]

\* An identifier string as a client can send it: a raw id, the text encrypt()
\* makes of one, or some other text.  Null is undefined/null, EmptyStr is ''.
Null == [form |-> "null", id |-> ""]
EmptyStr == [form |-> "empty", id |-> ""]
Junk == [form |-> "junk", id |-> ""]
Plain(i) == [form |-> "plain", id |-> i]
IdStrings == {[form |-> f, id |-> i] : f \in {"plain", "enc"}, i \in PlainIds} \cup {Junk}

\* encrypt(text) applied to a raw id
\* (the ciphertext of a text that is no raw id is again some other text)
Encrypt(s) ==
    IF s.form \in {"null", "empty"} THEN Null
    ELSE IF s.form = "plain" THEN [form |-> "enc", id |-> s.id]
    ELSE [form |-> "enc(" \o s.form \o ")", id |-> s.id]

\* decrypt(encryptedText): on a text that encrypt() did not make, CryptoJS
\* decrypts under a random salt; the bytes are malformed UTF-8 (toString
\* throws and decrypt rethrows), or empty, or by chance some other text.
Threw == [threw |-> TRUE, value |-> Null]
Returned(v) == [threw |-> FALSE, value |-> v]
Decrypt(s) ==
    IF s.form \in {"null", "empty"} THEN {Returned(Null)}
    ELSE IF s.form = "enc" THEN {Returned(Plain(s.id))}
    ELSE IF s.form = "enc(enc)" THEN {Returned([form |-> "enc", id |-> s.id])}
    ELSE IF s.form = "enc(junk)" THEN {Returned(Junk)}
    ELSE {Threw, Returned(EmptyStr), Returned(Junk)}

\* the Authorization headers followed on these routes, and the clock
ApiTokens == {t \in Tokens : t.form = "jwt" /\ t.exp = 1}
NoToken == CHOOSE t \in ApiTokens : t.sig = "bad"
ApiAuths ==
    {[scheme |-> "Bearer", token |-> t, now |-> n] : t \in ApiTokens, n \in 0..1}
        \cup {[scheme |-> "absent", token |-> NoToken, now |-> 0]}

Requests ==
    {r \in [app : Apps, route : Routes, id : IdStrings \cup {Null}, bodyOk : BOOLEAN,
            bodyId : {Null, Junk, [form |-> "enc", id |-> "u1"]}, auth : ApiAuths] :
        (r.route = "listUsers") <=> (r.id = Null)}
NoRq == [app |-> "none"]

\* the middlewares of a route, in the order they are registered
Stack(a, r) ==
    IF a = "index"
    THEN <<"transformResponse", "decryptRequestIds", "verifyToken">> \o
         (CASE r = "listUsers" -> <<"checkRole", "handler">>
            [] r = "getUser" -> <<"validate", "handler">>
            [] r = "putUser" -> <<"validate", "handler">>
            [] r = "deleteUser" -> <<"validate", "checkRole", "handler">>)
    ELSE <<"verifyToken">> \o
         (CASE r = "listUsers" -> <<"authorize", "validateResponse", "handler">>
            [] r = "getUser" ->
                <<"decryptRequestIds", "authorize", "validateResponse", "handler">>
            [] r = "putUser" ->
                <<"decryptRequestIds", "authorize", "validate", "validateResponse", "handler">>
            [] r = "deleteUser" -> <<"decryptRequestIds", "authorize", "handler">>)

PInit ==
    /\ rq = NoRq
    /\ pc = 0
    /\ params = Null
    /\ pbody = Null
    /\ ruser = NoUser
    /\ sent = <<>>
    /\ ran = <<>>
    /\ store = InitialStore
    /\ storeOps = 0

Stage ==
    IF rq # NoRq /\ pc \in 1..Len(Stack(rq.app, rq.route))
    THEN Stack(rq.app, rq.route)[pc] ELSE "none"
HasRun(m) == \E i \in 1..Len(ran) : ran[i] = m

\* the request reaches the first middleware
ApiReceive(r) ==
    /\ rq = NoRq
    /\ rq' = r
    /\ pc' = 1
    /\ params' = r.id
    /\ pbody' = r.bodyId
    /\ UNCHANGED <<ruser, sent, ran, store, storeOps>>
    /\ UNCHANGED <<cvars, wvars, avars, gvars, rvars, kvars, tvars, dvars>>

Payload(st, k, i) == [status |-> st, kind |-> k, id |-> i]

\* res.json(data) through the wrappers installed on res: validateResponse
\* replaces a body that fails the route's schema (authResponse requires
\* data.token, which no user route sends), transformResponse encrypts ids
Json(p) ==
    IF HasRun("validateResponse") /\ ~(rq.route = "listUsers" /\ p.kind = "users")
    THEN Payload(p.status, "validationFailed", Null)
    ELSE IF HasRun("transformResponse") THEN Payload(p.status, p.kind, Encrypt(p.id))
    ELSE p

\* status of an AppError(statusCode, message) at the error handler
AppErrorStatus(statusCode) == statusCode
\* the error-handling middleware: err.status || 500
ErrorHandler(st) == Json(Payload(st, "error", Null))

\* the middleware calls next()
Continue ==
    /\ pc' = pc + 1
    /\ ran' = Append(ran, Stage)
    /\ UNCHANGED <<rq, sent>>
\* the middleware writes the response and returns
End(p) ==
    /\ sent' = Append(sent, p)
    /\ pc' = Len(Stack(rq.app, rq.route)) + 1
    /\ ran' = Append(ran, Stage)
    /\ UNCHANGED rq

TransformResponse ==
    /\ Stage = "transformResponse"
    /\ Continue
    /\ UNCHANGED <<params, pbody, ruser, store, storeOps>>
    /\ UNCHANGED <<cvars, wvars, avars, gvars, rvars, kvars, tvars, dvars>>

\* req.params of a middleware mounted with app.use() has no id: the route is
\* not matched yet.  The middlewares of a route see the route's parameters.
ParamsAtLayer == IF rq.app = "routes" THEN params ELSE Null

DecryptRequestIds ==
    /\ Stage = "decryptRequestIds"
    /\ \E p \in Decrypt(ParamsAtLayer), b \in Decrypt(pbody) :
        IF p.threw \/ b.threw
        THEN End(ErrorHandler(500)) /\ UNCHANGED <<params, pbody>>
        ELSE /\ params' = IF ParamsAtLayer = Null THEN params ELSE p.value
             /\ pbody' = b.value
             /\ Continue
    /\ UNCHANGED <<ruser, store, storeOps>>
    /\ UNCHANGED <<cvars, wvars, avars, gvars, rvars, kvars, tvars, dvars>>

\* verifyToken of middleware/auth.js (index) or of authMiddleware.js (routes)
Authenticate ==
    /\ Stage = "verifyToken"
    /\ LET o == IF rq.app = "index" THEN AuthOutcome(rq.auth)
                ELSE AuthMiddlewareOutcome(rq.auth)
       IN  CASE o.kind = "next" -> ruser' = Decoded(rq.auth.token) /\ Continue
             [] o.kind = "response" ->
                    End(Json(Payload(o.status, "error", Null))) /\ UNCHANGED ruser
             [] o.kind = "next(err)" ->
                    End(ErrorHandler(AppErrorStatus(o.status))) /\ UNCHANGED ruser
    /\ UNCHANGED <<params, pbody, store, storeOps>>
    /\ UNCHANGED <<cvars, wvars, avars, gvars, rvars, kvars, tvars, dvars>>

\* checkRole(['admin']) of middleware/auth.js
CheckRoleNoReturn ==
    /\ Stage = "checkRole"
    /\ IF ruser = NoUser \/ ruser.role \notin {"admin"}
       THEN /\ sent' = Append(sent, Json(Payload(403, "error", Null)))
            /\ pc' = pc + 1
            /\ ran' = Append(ran, Stage)
            /\ UNCHANGED rq
       ELSE Continue
    /\ UNCHANGED <<params, pbody, ruser, store, storeOps>>
    /\ UNCHANGED <<cvars, wvars, avars, gvars, rvars, kvars, tvars, dvars>>

CheckRole ==
    /\ Stage = "checkRole"
    /\ IF ruser = NoUser THEN End(Json(Payload(401, "error", Null)))
       ELSE IF ruser.role \notin {"admin"} THEN End(Json(Payload(403, "error", Null)))
       ELSE Continue
    /\ UNCHANGED <<params, pbody, ruser, store, storeOps>>
    /\ UNCHANGED <<cvars, wvars, avars, gvars, rvars, kvars, tvars, dvars>>

\* authorize(...allowedRoles) of middleware/authMiddleware.js
AllowedRoles(r) == IF r \in {"listUsers", "deleteUser"} THEN {"admin"} ELSE {"admin", "user"}

Authorize ==
    /\ Stage = "authorize"
    /\ IF ruser = NoUser THEN End(ErrorHandler(AppErrorStatus(401)))
       ELSE IF ruser.role \notin AllowedRoles(rq.route)
       THEN End(ErrorHandler(AppErrorStatus(403)))
       ELSE Continue
    /\ UNCHANGED <<params, pbody, ruser, store, storeOps>>
    /\ UNCHANGED <<cvars, wvars, avars, gvars, rvars, kvars, tvars, dvars>>

\* validate(schema): schemas.id and schemas.user.update of the application
\* (unknown keys are stripped), userSchemas.update of the router (unknown keys,
\* id among them, are violations)
Validate ==
    /\ Stage = "validate"
    /\ IF rq.app = "index"
       THEN IF rq.route = "putUser" /\ ~rq.bodyOk
            THEN End(Json(Payload(400, "error", Null))) ELSE Continue
       ELSE IF ~rq.bodyOk \/ rq.bodyId # Null
            THEN End(ErrorHandler(AppErrorStatus(400))) ELSE Continue
    /\ UNCHANGED <<params, pbody, ruser, store, storeOps>>
    /\ UNCHANGED <<cvars, wvars, avars, gvars, rvars, kvars, tvars, dvars>>

\* validateResponse(schema) wraps res.json and calls next()
ValidateResponse ==
    /\ Stage = "validateResponse"
    /\ Continue
    /\ UNCHANGED <<params, pbody, ruser, store, storeOps>>
    /\ UNCHANGED <<cvars, wvars, avars, gvars, rvars, kvars, tvars, dvars>>

\* what a route handler does: its response, the store it leaves, its store calls
Outcome(p, s, n) == [resp |-> p, store |-> s, ops |-> n]
Found(st) == params.form = "plain" /\ st[params.id] # "absent"
\* the id of a record in the list a handler sends, if the store has any
Listed(st) ==
    IF \E i \in PlainIds : st[i] # "absent"
    THEN Plain(CHOOSE i \in PlainIds : st[i] # "absent") ELSE Null
\* req.user.role !== 'admin' && req.user.id !== req.params.id
NotPermitted == ruser.role # "admin" /\ Plain(ruser.sub) # params

\* the handlers of index.js; User.delete of an absent id is falsy with
\* MongoDB and a result header with MySQL
IndexHandler(st) ==
    CASE rq.route = "listUsers" ->
            {Outcome(Json(Payload(200, "users", Listed(st))), st, 1)}
      [] rq.route = "getUser" ->
            IF Found(st) THEN {Outcome(Json(Payload(200, "user", params)), st, 1)}
            ELSE {Outcome(Json(Payload(404, "error", Null)), st, 1)}
      [] rq.route = "putUser" ->
            IF NotPermitted THEN {Outcome(Json(Payload(403, "error", Null)), st, 0)}
            ELSE IF ~Found(st) THEN {Outcome(Json(Payload(404, "error", Null)), st, 1)}
            ELSE {Outcome(Json(Payload(200, "user", params)),
                          [st EXCEPT ![params.id] = "v1"], 2)}
      [] rq.route = "deleteUser" ->
            IF Found(st)
            THEN {Outcome(Json(Payload(200, "message", Null)),
                          [st EXCEPT ![params.id] = "absent"], 1)}
            ELSE {Outcome(Json(Payload(404, "error", Null)), st, 1),
                  Outcome(Json(Payload(200, "message", Null)), st, 1)}

\* the handlers of routes/userRoutes.js on the in-memory users array
RoutesHandler(st) ==
    CASE rq.route = "listUsers" ->
            {Outcome(Json(Payload(200, "users", Listed(st))), st, 1)}
      [] rq.route = "getUser" ->
            IF ~Found(st) THEN {Outcome(ErrorHandler(AppErrorStatus(404)), st, 1)}
            ELSE IF NotPermitted THEN {Outcome(ErrorHandler(AppErrorStatus(403)), st, 1)}
            ELSE {Outcome(Json(Payload(200, "user", params)), st, 1)}
      [] rq.route = "putUser" ->
            IF ~Found(st) THEN {Outcome(ErrorHandler(AppErrorStatus(404)), st, 1)}
            ELSE IF NotPermitted THEN {Outcome(ErrorHandler(AppErrorStatus(403)), st, 1)}
            ELSE {Outcome(Json(Payload(200, "user", params)),
                          [st EXCEPT ![params.id] = "v1"], 2)}
      [] rq.route = "deleteUser" ->
            IF ~Found(st) THEN {Outcome(ErrorHandler(AppErrorStatus(404)), st, 1)}
            ELSE {Outcome(Payload(204, "none", Null),
                          [st EXCEPT ![params.id] = "absent"], 2)}

RouteHandler ==
    /\ Stage = "handler"
    /\ \E o \in (IF rq.app = "index" THEN IndexHandler(store) ELSE RoutesHandler(store)) :
        /\ sent' = Append(sent, o.resp)
        /\ store' = o.store
        /\ storeOps' = storeOps + o.ops
    /\ pc' = pc + 1
    /\ ran' = Append(ran, Stage)
    /\ UNCHANGED <<rq, params, pbody, ruser>>
    /\ UNCHANGED <<cvars, wvars, avars, gvars, rvars, kvars, tvars, dvars>>

-----------------------------------------------------------------------------
(***************************************************************************)
(* Registration: the handlers of POST /auth/register, several requests in  *)
(* flight in one worker.  A handler runs until its next await.             *)
(***************************************************************************)
\* register requests followed
MaxRegisters == 2
RegIds == 1..MaxRegisters
Emails == {"a@x", "b@x"}

GInitWith(a) ==
    /\ gapp = a
    /\ gusers = <<>>
    /\ gpc = [k \in RegIds |-> "none"]
    /\ gemail = [k \in RegIds |-> ""]
    /\ gstatus = [k \in RegIds |-> 0]
    /\ gnow = 0
    /\ gids = <<>>
    /\ gcreated = <<>>

Registered(e) == \E i \in 1..Len(gusers) : gusers[i] = e

\* the handler leaves the request with a response
Answer(k, st) ==
    /\ gstatus' = [gstatus EXCEPT ![k] = st]
    /\ gpc' = [gpc EXCEPT ![k] = "done"]

\* a request passed validate(...) and reached the handler
Register(k, e) ==
    /\ gpc[k] = "none"
    /\ gpc' = [gpc EXCEPT ![k] = "new"]
    /\ gemail' = [gemail EXCEPT ![k] = e]
    /\ UNCHANGED <<gapp, gusers, gstatus, gnow, gids, gcreated>>
    /\ UNCHANGED <<cvars, wvars, avars, pvars, rvars, kvars, tvars, dvars>>

\* users.find(u => u.email === email)  /  await User.findByEmail(email)
CheckExisting(k) ==
    /\ gpc[k] = "new"
    /\ IF Registered(gemail[k])
       THEN Answer(k, IF gapp = "index" THEN 409 ELSE AppErrorStatus(400))
       ELSE gpc' = [gpc EXCEPT ![k] = "salt"] /\ UNCHANGED gstatus
    /\ UNCHANGED <<gapp, gusers, gemail, gnow, gids, gcreated>>
    /\ UNCHANGED <<cvars, wvars, avars, pvars, rvars, kvars, tvars, dvars>>

\* await bcrypt.genSalt(10) resolved
SaltDone(k) ==
    /\ gpc[k] = "salt"
    /\ gpc' = [gpc EXCEPT ![k] = "hash"]
    /\ UNCHANGED <<gapp, gusers, gemail, gstatus, gnow, gids, gcreated>>
    /\ UNCHANGED <<cvars, wvars, avars, pvars, rvars, kvars, tvars, dvars>>

\* id: Date.now().toString()
NewId == gnow

\* await bcrypt.hash(password, salt) resolved: the router pushes the record
\* and answers; User.save sends the insert to the backend
HashDone(k) ==
    /\ gpc[k] = "hash"
    /\ IF gapp = "routes"
       THEN /\ gusers' = Append(gusers, gemail[k])
            /\ gids' = Append(gids, NewId)
            /\ Answer(k, 201)
       ELSE gpc' = [gpc EXCEPT ![k] = "insert"] /\ UNCHANGED <<gusers, gstatus, gids>>
    /\ UNCHANGED <<gapp, gemail, gnow, gcreated>>
    /\ UNCHANGED <<cvars, wvars, avars, pvars, rvars, kvars, tvars, dvars>>

\* the insert of User.save at MongoDB (email unique: true) or MySQL (email
\* UNIQUE): a duplicate email is refused, the error has no status and
\* reaches the error handler
InsertDone(k) ==
    /\ gpc[k] = "insert"
    /\ IF Registered(gemail[k])
       THEN Answer(k, 500) /\ UNCHANGED gusers
       ELSE gusers' = Append(gusers, gemail[k]) /\ Answer(k, 201)
    /\ UNCHANGED <<gapp, gemail, gnow, gids, gcreated>>
    /\ UNCHANGED <<cvars, wvars, avars, pvars, rvars, kvars, tvars, dvars>>

\* router.post('/') of routes/userRoutes.js, past authorize and validate: the
\* handler is synchronous and looks for no existing record
CreateUser ==
    /\ gapp = "routes"
    /\ Len(gcreated) < MaxRegisters
    /\ gcreated' = Append(gcreated, NewId)
    /\ UNCHANGED <<gapp, gusers, gpc, gemail, gstatus, gnow, gids>>
    /\ UNCHANGED <<cvars, wvars, avars, pvars, rvars, kvars, tvars, dvars>>

\* a millisecond passes
Tick ==
    /\ gnow < MaxTime
    /\ gnow' = gnow + 1
    /\ UNCHANGED <<gapp, gusers, gpc, gemail, gstatus, gids, gcreated>>
    /\ UNCHANGED <<cvars, wvars, avars, pvars, rvars, kvars, tvars, dvars>>

-----------------------------------------------------------------------------
(***************************************************************************)
(* validateResponse(userSchemas.authResponse): the wrapped res.json.       *)
(***************************************************************************)
\* the keys userSchemas.authResponse requires, by path; a payload is the set
\* of the paths it has
AuthResponseFields ==
    {"status", "data", "data.user", "data.user.id", "data.user.name",
     "data.user.email", "data.user.role", "data.token"}
Parent(f) ==
    CASE f \in {"status", "data"} -> ""
      [] f \in {"data.user", "data.token"} -> "data"
      [] OTHER -> "data.user"
ResponsePayloads ==
    {d \in SUBSET AuthResponseFields : \A f \in d : Parent(f) \in d \cup {""}}
NoBody == [status |-> "none"]

RInitWith(d) ==
    /\ vdata = d
    /\ vbody = NoBody
    /\ vlog = <<>>

\* schema.validate(data, { abortEarly: false }): one detail for every required
\* key that is missing from an object that is there; its message names the path
SchemaErrors(d) == {f \in AuthResponseFields : f \notin d /\ Parent(f) \in d \cup {""}}

\* res.json(data) as replaced by validateResponse
ResJson ==
    /\ vbody = NoBody
    /\ IF SchemaErrors(vdata) # {}
       THEN /\ vlog' = Append(vlog, [level |-> "error", errors |-> SchemaErrors(vdata)])
            /\ vbody' = [status |-> "error", message |-> "Response validation failed",
                         errors |-> SchemaErrors(vdata), data |-> {}]
       ELSE /\ vbody' = [status |-> "success", message |-> "", errors |-> {},
                         data |-> vdata]
            /\ UNCHANGED vlog
    /\ UNCHANGED vdata
    /\ UNCHANGED <<cvars, wvars, avars, pvars, gvars, kvars, tvars, dvars>>

-----------------------------------------------------------------------------
(***************************************************************************)
(* The Encryption class: encrypt, decrypt and the Base64URL conversions,   *)
(* on texts as sequences of characters.                                    *)
(***************************************************************************)
\* length of the standard Base64 texts followed, in groups of 4 characters
MaxQuads == 1

\* "A" stands for the letters and digits, which no conversion touches
Base64Chars == {"A", "+", "/"}
\* standard Base64: groups of 4 characters, the last with 0, 1 or 2 "="
StdBase64 ==
    {s \in [1..(4 * MaxQuads) -> Base64Chars \cup {"="}] :
        \E p \in 0..2 : \A i \in 1..(4 * MaxQuads) :
            (s[i] = "=") <=> (i > 4 * MaxQuads - p)}
\* the ids given to encrypt; '' is falsy
Plaintexts == {"", "7", "u1"}

Replace(s, a, b) == [i \in 1..Len(s) |-> IF s[i] = a THEN b ELSE s[i]]

\* str.replace(/=+$/, '')
RECURSIVE StripPadding(_)
StripPadding(s) ==
    IF s # <<>> /\ s[Len(s)] = "=" THEN StripPadding(SubSeq(s, 1, Len(s) - 1)) ELSE s

\* while (str.length % 4) { str += '='; }
RECURSIVE Pad(_)
Pad(s) == IF Len(s) % 4 # 0 THEN Pad(Append(s, "=")) ELSE s

toBase64Url(str) == StripPadding(Replace(Replace(str, "+", "-"), "/", "_"))

fromBase64UrlNoPad(str) == Replace(Replace(str, "-", "+"), "_", "/")

fromBase64Url(str) == Pad(Replace(Replace(str, "-", "+"), "_", "/"))

NotCalled == [kind |-> "none", text |-> <<>>, id |-> ""]
NullResult == [kind |-> "null", text |-> <<>>, id |-> ""]
DecryptFailed == [kind |-> "threw", text |-> <<>>, id |-> ""]

KInitWith(x, c) ==
    /\ ktext = x
    /\ kaes = c
    /\ kenc = NotCalled
    /\ kdec = NotCalled

\* encrypt(text)
EncryptCall ==
    /\ kenc = NotCalled
    /\ kenc' = IF ktext = "" THEN NullResult
               ELSE [kind |-> "text", text |-> toBase64Url(kaes), id |-> ""]
    /\ UNCHANGED <<ktext, kaes, kdec>>
    /\ UNCHANGED <<cvars, wvars, avars, pvars, gvars, rvars, tvars, dvars>>

\* decrypt(encryptedText) of what encrypt returned: CryptoJS.AES.decrypt
\* recovers the text from the ciphertext it made and from no other text
DecryptCall ==
    /\ kenc # NotCalled
    /\ kdec = NotCalled
    /\ kdec' \in
            IF kenc = NullResult THEN {NullResult}
            ELSE IF fromBase64Url(kenc.text) = kaes
            THEN {[kind |-> "text", text |-> <<>>, id |-> ktext]}
            ELSE {DecryptFailed, [kind |-> "text", text |-> <<>>, id |-> ""]}
    /\ UNCHANGED <<ktext, kaes, kenc>>
    /\ UNCHANGED <<cvars, wvars, avars, pvars, gvars, rvars, tvars, dvars>>

-----------------------------------------------------------------------------
(***************************************************************************)
(* The recursive id walks: encryptIds of transformResponse and decryptIds  *)
(* of decryptRequestIds, on values built from mappings and sequences.      *)
(***************************************************************************)
\* longest sequence in the values followed
MaxSeqLen == 2

\* a value is a scalar, a sequence of values or a mapping from keys to values
Val(s) == [t |-> "val", v |-> s]
SeqOf(q) == [t |-> "seq", v |-> q]
MapOf(f) == [t |-> "map", v |-> f]
Keys == {"id", "k"}
Scalars == {Val(Plain("u1")), Val([form |-> "enc", id |-> "u1"]), Val(Junk)}

SeqsOver(S) == {SeqOf(q) : q \in UNION {[1..n -> S] : n \in 0..MaxSeqLen}}
MapsOver(S) == {MapOf(f) : f \in UNION {[K -> S] : K \in SUBSET Keys}}
Level1 == Scalars \cup SeqsOver(Scalars) \cup MapsOver(Scalars)
Values == MapsOver(Level1) \cup SeqsOver(MapsOver(Scalars))

\* the walk threw
ThrewValue == [t |-> "threw", v |-> <<>>]
Children(r) == IF r.t = "seq" THEN {r.v[i] : i \in 1..Len(r.v)}
               ELSE {r.v[key] : key \in DOMAIN r.v}
Propagate(r) == IF ThrewValue \in Children(r) THEN ThrewValue ELSE r

\* idEncryption.encrypt(value): value.toString() of an object is not a raw id
EncryptValue(x) ==
    IF x.t = "val" THEN Val(Encrypt(x.v))
    ELSE Val([form |-> "enc(object)", id |-> ""])

\* idEncryption.decrypt(value); what: which of its outcomes on a text that
\* encrypt did not make.  On an object str.replace is not a function.
DecryptValue(x, what) ==
    IF x.t # "val" THEN ThrewValue
    ELSE IF Cardinality(Decrypt(x.v)) = 1
    THEN Val((CHOOSE o \in Decrypt(x.v) : TRUE).value)
    ELSE IF what.threw THEN ThrewValue ELSE Val(what.value)

RECURSIVE encryptIdsAnyKey(_)
encryptIdsAnyKey(obj) ==
    CASE obj.t = "val" -> obj
      [] obj.t = "seq" -> SeqOf([i \in 1..Len(obj.v) |-> encryptIdsAnyKey(obj.v[i])])
      [] obj.t = "map" -> MapOf([key \in DOMAIN obj.v |-> EncryptValue(obj.v[key])])

RECURSIVE encryptIds(_)
encryptIds(obj) ==
    CASE obj.t = "val" -> obj
      [] obj.t = "seq" -> SeqOf([i \in 1..Len(obj.v) |-> encryptIds(obj.v[i])])
      [] obj.t = "map" ->
            MapOf([key \in DOMAIN obj.v |->
                    IF key = "id" THEN EncryptValue(obj.v[key])
                    ELSE encryptIds(obj.v[key])])

RECURSIVE decryptIds(_, _)
decryptIds(obj, what) ==
    CASE obj.t = "val" -> obj
      [] obj.t = "seq" ->
            Propagate(SeqOf([i \in 1..Len(obj.v) |-> decryptIds(obj.v[i], what)]))
      [] obj.t = "map" ->
            Propagate(MapOf([key \in DOMAIN obj.v |->
                    IF key = "id" THEN DecryptValue(obj.v[key], what)
                    ELSE decryptIds(obj.v[key], what)]))

NotWalked == [walk |-> "none", value |-> ThrewValue]

TInitWith(x) ==
    /\ tin = x
    /\ tout = NotWalked

\* res.json(data) of transformResponse
EncryptWalk ==
    /\ tout = NotWalked
    /\ tout' = [walk |-> "encryptIds", value |-> encryptIds(tin)]
    /\ UNCHANGED tin
    /\ UNCHANGED <<cvars, wvars, avars, pvars, gvars, rvars, kvars, dvars>>

\* req.body = decryptIds(req.body) of decryptRequestIds
DecryptWalk(what) ==
    /\ tout = NotWalked
    /\ tout' = [walk |-> "decryptIds", value |-> decryptIds(tin, what)]
    /\ UNCHANGED tin
    /\ UNCHANGED <<cvars, wvars, avars, pvars, gvars, rvars, kvars, dvars>>

-----------------------------------------------------------------------------
(***************************************************************************)
(* Storage connections: DatabaseProxy of utils/database.js, as startServer *)
(* and concurrent callers of one connect operation use it.                 *)
(***************************************************************************)
\* concurrent callers of the connect operation
MaxCallers == 2
Callers == 1..MaxCallers
Backends == {"mongodb", "mysql", "dynamodb"}
NoConnection == 0

DInitWith(t) ==
    /\ dtype = t
    /\ dconn = [b \in Backends |-> NoConnection]
    /\ dmade = [b \in Backends |-> 0]
    /\ dboot = "start"
    /\ dheld = NoConnection
    /\ dpc = [c \in Callers |-> "idle"]
    /\ dobj = [c \in Callers |-> NoConnection]
    /\ dret = [c \in Callers |-> NoConnection]

\* the object a connect call obtains: mongoose.connect resolves to the one
\* mongoose instance and its default connection; mysql.createPool and
\* new DynamoDBClient make a new object at each call
Open(b) == IF b = "mongodb" THEN 1 ELSE dmade[b] + 1

\* connectMongoDB / connectMySQL / connectDynamoDB up to the await: the test
\* of this.connections, and the call that opens the connection
Connect(c) ==
    /\ dpc[c] = "idle"
    /\ IF dconn[dtype] # NoConnection
       THEN /\ dret' = [dret EXCEPT ![c] = dconn[dtype]]
            /\ dpc' = [dpc EXCEPT ![c] = "done"]
            /\ UNCHANGED <<dconn, dmade, dobj>>
       ELSE IF dtype = "dynamodb"
       THEN /\ dconn' = [dconn EXCEPT ![dtype] = Open(dtype)]
            /\ dmade' = [dmade EXCEPT ![dtype] = Open(dtype)]
            /\ dret' = [dret EXCEPT ![c] = Open(dtype)]
            /\ dpc' = [dpc EXCEPT ![c] = "done"]
            /\ UNCHANGED dobj
       ELSE /\ dobj' = [dobj EXCEPT ![c] = Open(dtype)]
            /\ dmade' = [dmade EXCEPT ![dtype] = Open(dtype)]
            /\ dpc' = [dpc EXCEPT ![c] = "await"]
            /\ UNCHANGED <<dconn, dret>>
    /\ UNCHANGED <<dtype, dboot, dheld>>
    /\ UNCHANGED <<cvars, wvars, avars, pvars, gvars, rvars, kvars, tvars>>

\* the await ends: this.connections[...] = the object; return it
Resume(c) ==
    /\ dpc[c] = "await"
    /\ dconn' = [dconn EXCEPT ![dtype] = dobj[c]]
    /\ dret' = [dret EXCEPT ![c] = dobj[c]]
    /\ dpc' = [dpc EXCEPT ![c] = "done"]
    /\ UNCHANGED <<dtype, dmade, dboot, dheld, dobj>>
    /\ UNCHANGED <<cvars, wvars, avars, pvars, gvars, rvars, kvars, tvars>>

\* startServer(): User.initializeTables() calls db.connectMySQL()
InitializeTables ==
    /\ dboot = "start"
    /\ dboot' = "mysql"
    /\ IF dconn["mysql"] # NoConnection
       THEN UNCHANGED <<dheld, dmade>>
       ELSE /\ dheld' = Open("mysql")
            /\ dmade' = [dmade EXCEPT !["mysql"] = Open("mysql")]
    /\ UNCHANGED <<dtype, dconn, dpc, dobj, dret>>
    /\ UNCHANGED <<cvars, wvars, avars, pvars, gvars, rvars, kvars, tvars>>

\* connectMySQL resumes and returns; the table query is sent
MySQLConnected ==
    /\ dboot = "mysql"
    /\ dboot' = "query"
    /\ dconn' = IF dheld # NoConnection THEN [dconn EXCEPT !["mysql"] = dheld] ELSE dconn
    /\ dheld' = NoConnection
    /\ UNCHANGED <<dtype, dmade, dpc, dobj, dret>>
    /\ UNCHANGED <<cvars, wvars, avars, pvars, gvars, rvars, kvars, tvars>>

\* the query is answered: db.connectDynamoDB(), the table command, and then
\* app.listen
TablesInitialized ==
    /\ dboot = "query"
    /\ dboot' = "listening"
    /\ IF dconn["dynamodb"] # NoConnection
       THEN UNCHANGED <<dconn, dmade>>
       ELSE /\ dconn' = [dconn EXCEPT !["dynamodb"] = Open("dynamodb")]
            /\ dmade' = [dmade EXCEPT !["dynamodb"] = Open("dynamodb")]
    /\ UNCHANGED <<dtype, dheld, dpc, dobj, dret>>
    /\ UNCHANGED <<cvars, wvars, avars, pvars, gvars, rvars, kvars, tvars>>

-----------------------------------------------------------------------------
(***************************************************************************)
(* Specifications.                                                         *)
(***************************************************************************)
\* no request, no register request, no res.json call, no encrypt call, no walk
XInit ==
    /\ PInit /\ DInitWith("mysql") /\ GInitWith("index") /\ RInitWith({})
    /\ KInitWith("", <<>>) /\ TInitWith(MapOf(<<>>))

Init == CInit /\ WInitWith(TRUE) /\ AInit /\ XInit

\* the cluster: the primary's handlers and its workers' exits
Next ==
    \/ \E w \in Ids, c \in ExitCodes : WorkerExits(w, c)
    \/ \E w \in Ids : WorkerDisconnects(w)
    \/ \E w \in Ids : OnExit(w)
    \/ \E w \in Ids : OnDisconnect(w)
    \/ Shutdown
    \/ ForceExit

Spec == Init /\ [][Next]_vars

\* the 30 s timer of the primary fires once armed
FairSpec == Spec /\ WF_vars(ForceExit)

\* one worker process, with or without a channel to a primary
WorkerInit == CInit /\ WInit /\ AInit /\ XInit

WorkerNext ==
    \/ \E r \in ReqIds : Admit(r)
    \/ \E r \in ReqIds, s \in StatusCodes : EndResponse(r, s)
    \/ ReportTimer
    \/ \E m \in MsgTypes : OnMessage(m)
    \/ GraceTimerFires
    \/ WorkerSignal
    \/ \E ok \in BOOLEAN : ServerClosed(ok)

WorkerSpec == WorkerInit /\ [][WorkerNext]_vars

\* the worker's own timers and callbacks run; nothing makes a request end
FairWorkerSpec ==
    /\ WorkerSpec
    /\ WF_vars(GraceTimerFires)
    /\ WF_vars(\E ok \in BOOLEAN : ServerClosed(ok))

\* one request through either verifyToken
AuthNext ==
    \/ \E h \in [scheme : Schemes, token : Tokens], n \in 0..MaxTime : Receive(h, n)
    \/ \E m \in Middlewares : VerifyToken(m)

AuthSpec == Init /\ [][AuthNext]_vars

\* one request through the stack of a user route
ApiNext ==
    \/ \E r \in Requests : ApiReceive(r)
    \/ TransformResponse
    \/ DecryptRequestIds
    \/ Authenticate
    \/ CheckRole
    \/ Authorize
    \/ Validate
    \/ ValidateResponse
    \/ RouteHandler

ApiSpec == Init /\ [][ApiNext]_vars

\* register requests on either register handler
RegisterInit ==
    /\ CInit /\ WInitWith(TRUE) /\ AInit /\ PInit /\ DInitWith("mysql")
    /\ RInitWith({}) /\ KInitWith("", <<>>) /\ TInitWith(MapOf(<<>>))
    /\ \E a \in Apps : GInitWith(a)

RegisterNext ==
    \/ \E k \in RegIds, e \in Emails : Register(k, e)
    \/ \E k \in RegIds : CheckExisting(k)
    \/ \E k \in RegIds : SaltDone(k)
    \/ \E k \in RegIds : HashDone(k)
    \/ \E k \in RegIds : InsertDone(k)
    \/ CreateUser
    \/ Tick

RegisterSpec == RegisterInit /\ [][RegisterNext]_vars

\* res.json called once with any payload
ResponseInit ==
    /\ CInit /\ WInitWith(TRUE) /\ AInit /\ PInit /\ DInitWith("mysql")
    /\ GInitWith("index") /\ KInitWith("", <<>>) /\ TInitWith(MapOf(<<>>))
    /\ \E d \in ResponsePayloads : RInitWith(d)

ResponseSpec == ResponseInit /\ [][ResJson]_vars

\* one id, encrypted and decrypted again
CodecInit ==
    /\ CInit /\ WInitWith(TRUE) /\ AInit /\ PInit /\ DInitWith("mysql")
    /\ GInitWith("index") /\ RInitWith({}) /\ TInitWith(MapOf(<<>>))
    /\ \E x \in Plaintexts, c \in StdBase64 : KInitWith(x, c)

CodecNext ==
    \/ EncryptCall
    \/ DecryptCall

CodecSpec == CodecInit /\ [][CodecNext]_vars

\* one value through one of the walks
WalkInit ==
    /\ CInit /\ WInitWith(TRUE) /\ AInit /\ PInit /\ DInitWith("mysql")
    /\ GInitWith("index") /\ RInitWith({}) /\ KInitWith("", <<>>)
    /\ \E x \in Values : TInitWith(x)

WalkNext ==
    \/ EncryptWalk
    \/ \E what \in Decrypt(Junk) : DecryptWalk(what)

WalkSpec == WalkInit /\ [][WalkNext]_vars

\* the storage connections: startServer and callers of one connect operation
DbInit ==
    /\ CInit /\ WInitWith(TRUE) /\ AInit /\ PInit
    /\ GInitWith("index") /\ RInitWith({}) /\ KInitWith("", <<>>)
    /\ TInitWith(MapOf(<<>>))
    /\ \E t \in Backends : DInitWith(t)

DbNext ==
    \/ \E c \in Callers : Connect(c)
    \/ \E c \in Callers : Resume(c)
    \/ InitializeTables
    \/ MySQLConnected
    \/ TablesInitialized

DbSpec == DbInit /\ [][DbNext]_vars

-----------------------------------------------------------------------------
(***************************************************************************)
(* Properties of the cluster primary.                                      *)
(***************************************************************************)

\* the primary handles the exit of worker w in this step
ExitHandled(w) == ~isDead[w] /\ isDead'[w]

\* C1: while no shutdown has been requested, every crashed worker (non-zero
\* exit) is answered by exactly one fork when its exit is handled, and the
\* running workers plus the exits still to be handled always number NumCPUs,
\* after any number of crashes.
C1_CrashRestart ==
    /\ []((primary = "running" /\ shutdownCalls = 0)
            => Cardinality(Live) + Cardinality(PendingExit) = NumCPUs)
    /\ [][\A w \in Ids :
            (shutdownCalls = 0 /\ ExitHandled(w) /\ wcode[w] # 0)
                => /\ ids' = ids + 1
                   /\ proc[ids'] = "none" /\ proc'[ids'] = "running"
                   /\ ids' \in workers']_vars

\* two successive crashes have been replaced and the pool is back at NumCPUs
C1_Witness ==
    /\ shutdownCalls = 0
    /\ Cardinality({w \in Ids : isDead[w] /\ wcode[w] # 0}) >= 2
    /\ PendingExit = {}
    /\ Cardinality(Live) = NumCPUs

\* C2: once shutdown() has told the workers to disconnect, handling the exit
\* of a worker that disconnected on that request forks no worker.
C2_NoForkAfterShutdown ==
    [][\A w \in Ids :
         (ExitHandled(w) /\ exitedAfterDisconnect[w] /\ chan[w] = "disconnected")
            => ids' = ids]_vars

\* every worker forked at launch took the disconnect request, closed its
\* channel, exited with code 0, and the primary has seen both events
CleanShutdown ==
    \A w \in 1..NumCPUs :
        /\ exitedAfterDisconnect[w]
        /\ chan[w] = "disconnected"
        /\ isDead[w] /\ wcode[w] = 0
        /\ ~connected[w]

\* C3: when the signal finds all launch workers running and each of them
\* disconnects and exits before the primary ends, the primary ends with code 0.
C3_CleanShutdownExitsZero ==
    (primary = "exited" /\ CleanShutdown) => primaryExit = 0

C5_NoRestartOnZeroExit ==
    [][\A w \in Ids : (ExitHandled(w) /\ wcode[w] = 0) => ids' = ids]_vars

\* C6: when shutdown() runs, a message of type 'shutdown' is sent to every
\* running, connected worker of cluster.workers.
C6_ShutdownMessageSent ==
    [][shutdownCalls' > shutdownCalls
         => \A w \in workers :
              (proc[w] = "running" /\ chan[w] = "open") => ShutdownMsg \in inbox'[w]]_vars

-----------------------------------------------------------------------------
(***************************************************************************)
(* Properties of a worker process.                                         *)
(***************************************************************************)

\* C7: a worker that has received a shutdown instruction admits no new
\* request.
C7_NoAdmissionAfterShutdown ==
    [][ShuttingDown => \A r \in ReqIds : req[r] = "new" => req'[r] = "new"]_vars

\* C8: a worker that has received a shutdown instruction (the 'shutdown'
\* message or a termination signal) exits, even if a request never ends.
C8_WorkerExits == ShuttingDown ~> (wstate = "exited")

RECURSIVE SumRequests(_)
SumRequests(q) == IF q = <<>> THEN 0 ELSE Head(q).requests + SumRequests(Tail(q))

RECURSIVE SumErrors(_)
SumErrors(q) == IF q = <<>> THEN 0 ELSE Head(q).errors + SumErrors(Tail(q))

\* C9: with a channel, each metrics report carries the counters as they
\* stood, the counters are zero right after it, and the reports together
\* with the current counters count every request and every error once.
C9_ReportsExact ==
    /\ [](hasChannel =>
            /\ SumRequests(outbox) + stats.requests = Cardinality(Counted)
            /\ SumErrors(outbox) + stats.errors = Cardinality(Failed))
    /\ [][Len(outbox') > Len(outbox) =>
            /\ outbox' = Append(outbox, [type |-> "metrics",
                                         requests |-> stats.requests,
                                         errors |-> stats.errors])
            /\ stats' = ZeroStats]_vars

\* two reports have been sent, each with requests counted since the last one
C9_Witness ==
    /\ hasChannel
    /\ Len(outbox) >= 2
    /\ outbox[1].requests > 0
    /\ outbox[2].requests > 0 /\ outbox[2].errors > 0

\* C27: when a worker that was sent 'shutdown' has exited, every request its
\* monitor counted is in some metrics report, those counted during the 5 s
\* wait after the final report included.
C27_AllCountedReported ==
    (wstate = "exited" /\ graceTimers > 0) =>
        SumRequests(outbox) = Cardinality(Counted)

\* C28: no metrics report carries more errors than requests.
C28_ErrorsWithinRequests ==
    \A i \in 1..Len(outbox) : outbox[i].errors <= outbox[i].requests

-----------------------------------------------------------------------------
(***************************************************************************)
(* Properties of token verification.                                       *)
(***************************************************************************)

Verified == aout # NoOutcome /\ areq.scheme = "Bearer" /\ areq.token.form = "jwt"

\* C10: a correctly signed token past its expiry is refused with 'Token
\* expired', and a token with a bad signature with 'Invalid token'.
C10_ExpiredDistinguished ==
    /\ (Verified /\ areq.token.sig = "good" /\ areq.now >= areq.token.exp)
          => aout.message = "Token expired"
    /\ (Verified /\ areq.token.sig = "bad") => aout.message = "Invalid token"

\* C21: a request whose Authorization header is absent or is not of the form
\* 'Bearer <token>' (another scheme, a single word) is refused with 401 and
\* 'No token provided', not with the answer given to a badly signed token.
C21_NoCredential ==
    (aout # NoOutcome /\ areq.scheme # "Bearer") =>
        aout.status = 401 /\ aout.message = "No token provided"

-----------------------------------------------------------------------------
(***************************************************************************)
(* The user routes.                                                        *)
(***************************************************************************)
Finished == rq # NoRq /\ Stage = "none"
\* the request carries a token that verifies
ValidCredential ==
    /\ rq # NoRq
    /\ rq.auth.scheme = "Bearer"
    /\ JwtVerify(rq.auth.token, rq.auth.now).ok
NonAdmin == ValidCredential /\ rq.auth.token.role # "admin"

\* C11: a request gets exactly one response; after the response no further
\* middleware and no handler runs; the middlewares run in the order of the
\* route's stack; req.user is set only by verifyToken on a token that verifies.
C11_OneResponse ==
    /\ Len(sent) <= 1
    /\ Finished => Len(sent) = 1
    /\ sent # <<>> => Stage = "none"
    /\ rq # NoRq => ran = SubSeq(Stack(rq.app, rq.route), 1, Len(ran))
    /\ ruser # NoUser =>
            HasRun("verifyToken") /\ ValidCredential /\ ruser = Decoded(rq.auth.token)

\* a verified non-admin was refused by checkRole and the handler did not run
C11_Witness ==
    /\ Finished
    /\ ran[Len(ran)] = "checkRole"
    /\ ruser # NoUser
    /\ sent[1].status = 403

\* C12: on the admin-only routes (list users, delete user) a request with a
\* valid non-admin credential is answered 403, the handler does not run and
\* the store is neither read nor changed.
C12_AdminOnly ==
    (Finished /\ NonAdmin /\ rq.route \in {"listUsers", "deleteUser"}) =>
        /\ sent[1].status = 403
        /\ ~HasRun("handler")
        /\ storeOps = 0
        /\ store = InitialStore

\* the record the path identifier names, if the client sent the raw id or
\* its ciphertext
Target == IF rq # NoRq /\ rq.id.form \in {"plain", "enc"} THEN rq.id.id ELSE ""
NonOwner ==
    /\ NonAdmin
    /\ Target # ""
    /\ InitialStore[Target] # "absent"
    /\ Target # rq.auth.token.sub

\* C13: PUT /users/:id by a non-admin on the existing record of another user
\* is answered 403 and leaves the record unchanged.
C13_PutForbidden ==
    (Finished /\ NonOwner /\ rq.route = "putUser") =>
        sent[1].status = 403 /\ store = InitialStore

\* C14: GET /users/:id sends the user record only to an admin or to the user
\* the record belongs to; a non-admin asking for the existing record of
\* another user gets 403.
C14_GetForbidden ==
    (Finished /\ NonOwner /\ rq.route = "getUser") =>
        sent[1].status = 403 /\ sent[1].kind # "user"

\* The stages in the order they have to run.  The user router registers no
\* verifyToken of its own, so where authentication runs before it is not ranked.
StageRank(m) ==
    CASE m = "decryptRequestIds" -> 1
      [] m = "verifyToken" /\ rq.app = "index" -> 2
      [] m \in {"checkRole", "authorize"} -> 3
      [] m = "validate" -> 4
      [] m = "handler" -> 5
      [] OTHER -> 0
\* C16: the stages of a request run in the order identifier decryption,
\* authentication, authorization, request validation, handler; request
\* validation never runs before the authorization decision.
C16_StageOrder ==
    \A i, j \in 1..Len(ran) :
        (i < j /\ StageRank(ran[i]) > 0 /\ StageRank(ran[j]) > 0) =>
            StageRank(ran[i]) < StageRank(ran[j])

\* the client sent, in the path or in the body, an identifier that is not
\* the ciphertext of an id, and decryptRequestIds was applied to it
Undecodable ==
    /\ HasRun("decryptRequestIds")
    /\ \/ rq.bodyId = Junk
       \/ rq.app = "routes" /\ rq.id.form \in {"plain", "junk"}

\* C19: decrypt of a text that encrypt did not make does not raise; a request
\* with an undecodable path or body identifier is answered as not found
\* (404), never with an internal error (500).
C19_UndecodableNotFound ==
    (Finished /\ Undecodable) => sent[1].status # 500

\* C22: when a handler of a route with an :id segment runs for a URL that
\* carries the ciphertext of an id, req.params.id is the decryption of that
\* segment: no lookup or ownership comparison is made with the ciphertext.
C22_HandlerReadsPlainId ==
    (Stage = "handler" /\ rq.route # "listUsers" /\ rq.id.form = "enc") =>
        Returned(params) \in Decrypt(rq.id)

\* C23: on a route that declares a response schema, the payload is validated
\* with its plaintext ids and then encrypted, so the body that is serialized
\* carries no plaintext identifier.
C23_NoPlainIdSent ==
    (Finished /\ HasRun("validateResponse")) => sent[1].id.form # "plain"

\* C25: an error response carries the status of its kind: the body that
\* replaces a payload failing the response schema is sent with 500, and an
\* error body is never sent with a 2xx status.
C25_StatusOfKind ==
    Finished =>
        /\ sent[1].kind = "validationFailed" => sent[1].status = 500
        /\ sent[1].kind = "error" => sent[1].status >= 400

\* the responses the handler can give if the store is st
Responses(st) ==
    {o.resp : o \in (IF rq.app = "index" THEN IndexHandler(st) ELSE RoutesHandler(st))}

\* C29: for a non-admin whose path id is not their own, the response of
\* GET and PUT /users/:id is the same whether or not a record with that id
\* exists.
C29_ExistenceHidden ==
    (/\ Stage = "handler" /\ rq.route \in {"getUser", "putUser"}
     /\ ruser.role # "admin" /\ params.form = "plain" /\ Plain(ruser.sub) # params) =>
        Responses([store EXCEPT ![params.id] = "v0"]) =
            Responses([store EXCEPT ![params.id] = "absent"])
-----------------------------------------------------------------------------
(***************************************************************************)
(* Registration.                                                           *)
(***************************************************************************)
Records(e) == Cardinality({i \in 1..Len(gusers) : gusers[i] = e})
Created(e) == {k \in RegIds : gemail[k] = e /\ gstatus[k] = 201}

\* C15: under every interleaving of register requests the store holds at most
\* one record per email, exactly one for each email a request was answered
\* 201 for, and every other finished request was answered 400 or 409.
C15_OneRecordPerEmail ==
    /\ \A e \in Emails : Records(e) <= 1
    /\ \A e \in Emails : Cardinality(Created(e)) = Records(e)
    /\ \A k \in RegIds : gpc[k] = "done" => gstatus[k] \in {201, 400, 409}

Distinct(q) == \A i, j \in 1..Len(q) : i # j => q[i] # q[j]

\* C30: the records of each in-memory users array have pairwise distinct
\* ids, whatever the timing of the register and create-user requests that
\* made them.
C30_DistinctIds ==
    Distinct(gids) /\ Distinct(gcreated)
-----------------------------------------------------------------------------
(***************************************************************************)
(* Storage connections.                                                    *)
(***************************************************************************)
Connected == {b \in Backends : dconn[b] # NoConnection}

\* C24: a worker holds connections to at most one backend type, and holds
\* none until an operation has asked for one.
C24_OneBackendLazily ==
    /\ Cardinality(Connected) <= 1
    /\ (\A c \in Callers : dpc[c] = "idle") => Connected = {}

\* C26: callers of one connect operation that overlap at its await open one
\* connection or pool between them, and all are returned the same object.
C26_OneConnection ==
    /\ dmade[dtype] <= 1
    /\ \A c, d \in Callers :
        (dpc[c] = "done" /\ dpc[d] = "done") => dret[c] = dret[d]
-----------------------------------------------------------------------------
(***************************************************************************)
(* Response validation.                                                    *)
(***************************************************************************)
\* C17: when the payload fails the response schema, the violation is logged
\* at error severity and the body sent is a generic failure envelope: it has
\* neither the payload nor field names or field-level violation messages.
C17_GenericEnvelope ==
    (vbody # NoBody /\ SchemaErrors(vdata) # {}) =>
        /\ \E i \in 1..Len(vlog) : vlog[i].level = "error"
        /\ vbody.status = "error"
        /\ vbody.data = {}
        /\ vbody.errors = {}
-----------------------------------------------------------------------------
(***************************************************************************)
(* The identifier codec.                                                   *)
(***************************************************************************)
\* C18: decrypt(encrypt(x)) is x for every non-empty id x; the Base64URL step
\* loses nothing, fromBase64Url(toBase64Url(c)) = c for the standard Base64
\* ciphertext c, and the text encrypt returns has no "+", "/" or "=".
C18_RoundTrip ==
    /\ kenc.kind = "text" =>
            /\ \A i \in 1..Len(kenc.text) : kenc.text[i] \notin {"+", "/", "="}
            /\ fromBase64Url(kenc.text) = kaes
    /\ (kdec # NotCalled /\ ktext # "") => kdec = [kind |-> "text", text |-> <<>>, id |-> ktext]

\* an id came back from a ciphertext that has "+", "/" and padding
C18_Witness ==
    /\ ktext = "u1"
    /\ kdec.kind = "text" /\ kdec.id = "u1"
    /\ \E i, j \in 1..Len(kaes) : kaes[i] = "+" /\ kaes[j] = "/"
    /\ kaes[Len(kaes)] = "="
-----------------------------------------------------------------------------
(***************************************************************************)
(* The id walks.                                                           *)
(***************************************************************************)
\* b is a with nothing changed but values under a key "id"
RECURSIVE SameButIds(_, _)
SameButIds(a, b) ==
    /\ a.t = b.t
    /\ CASE a.t = "val" -> a.v = b.v
         [] a.t = "seq" ->
                /\ Len(a.v) = Len(b.v)
                /\ \A i \in 1..Len(a.v) : SameButIds(a.v[i], b.v[i])
         [] a.t = "map" ->
                /\ DOMAIN a.v = DOMAIN b.v
                /\ \A key \in DOMAIN a.v \ {"id"} : SameButIds(a.v[key], b.v[key])

RECURSIVE HasId(_)
HasId(a) ==
    CASE a.t = "val" -> FALSE
      [] a.t = "seq" -> \E i \in 1..Len(a.v) : HasId(a.v[i])
      [] a.t = "map" -> "id" \in DOMAIN a.v \/ \E key \in DOMAIN a.v : HasId(a.v[key])

\* C20: the value a walk returns differs from its input only in values under
\* a key "id", at any depth: other keys and values and the length and order
\* of sequences are kept; a value without any "id" key is returned as it was.
C20_OnlyIdsChange ==
    tout # NotWalked =>
        /\ tout.value # ThrewValue => SameButIds(tin, tout.value)
        /\ ~HasId(tin) => tout.value = tin

\* a walk changed an id two levels down and kept what is next to it
C20_Witness ==
    /\ tout # NotWalked
    /\ tin.t = "map" /\ DOMAIN tin.v = {"k"}
    /\ tin.v["k"].t = "map" /\ DOMAIN tin.v["k"].v = Keys
    /\ tout.value # ThrewValue
    /\ tout.value.v["k"].v["id"] # tin.v["k"].v["id"]
    /\ tout.value.v["k"].v["k"] = tin.v["k"].v["k"]
=============================================================================
